---- MODULE Spec2Model ----
(***************************************************************************)
(* Model of pkg/command/run.go: the RUN-instruction analyzer.              *)
(*                                                                         *)
(* A Go string is a sequence of one-character strings.  A context.Context  *)
(* is a node of a heap of immutable (parent, key, value) cells, the way    *)
(* context.WithValue builds them; context id 0 is context.Background().    *)
(***************************************************************************)
EXTENDS Integers, Sequences, FiniteSets, TLC

VARIABLES
    heap,     \* the context cells built so far; cell k is context id k
    made,     \* made[k]: the (value, source, line) Analyze was called with to build cell k
    value,    \* node.Value of the latest Analyze call
    source,   \* source of the latest Analyze call
    line,     \* line of the latest Analyze call
    ctxArg,   \* ctx passed to the latest Analyze call
    ret,      \* ctx returned by the latest Analyze call
    trace,    \* one record per loop iteration of the latest Analyze call
    out,      \* what the latest PostProcess call returned
    outCtx    \* ctx passed to the latest PostProcess call

vars == <<heap, made, value, source, line, ctxArg, ret, trace, out, outCtx>>

----------------------------------------------------------------------------
(* Character classes of Go's regexp (RE2) syntax.                          *)

WS == {" ", "\t", "\n", "\f", "\r"}

Digit == {"0", "1", "2", "3", "4", "5", "6", "7", "8", "9"}

UpperSeq == <<"A", "B", "C", "D", "E", "F", "G", "H", "I", "J", "K", "L", "M",
              "N", "O", "P", "Q", "R", "S", "T", "U", "V", "W", "X", "Y", "Z">>

LowerSeq == <<"a", "b", "c", "d", "e", "f", "g", "h", "i", "j", "k", "l", "m",
              "n", "o", "p", "q", "r", "s", "t", "u", "v", "w", "x", "y", "z">>

Upper == {UpperSeq[i] : i \in 1..Len(UpperSeq)}

Lower == {LowerSeq[i] : i \in 1..Len(LowerSeq)}

Word == Digit \cup Upper \cup Lower \cup {"_"}

kChmod == <<"c", "h", "m", "o", "d">>

kChown == <<"c", "h", "o", "w", "n">>

kSudo == <<"s", "u", "d", "o">>

kSu == <<"s", "u">>

kRoot == <<"r", "o", "o", "t">>

kZero == <<"0">>

kSep == <<"&", "&">>

----------------------------------------------------------------------------
(* String helpers.                                                         *)

\* s[i:] of Go (1-based i here)
From(s, i) == SubSeq(s, i, Len(s))

\* strings.HasPrefix(s[i:], p)
HasAt(s, i, p) == /\ i >= 1
                  /\ i + Len(p) - 1 <= Len(s)
                  /\ SubSeq(s, i, i + Len(p) - 1) = p

\* length of the longest run of characters of class cls starting at s[i]
RECURSIVE Run(_, _, _)
Run(s, i, cls) == IF i <= Len(s) /\ s[i] \in cls THEN 1 + Run(s, i + 1, cls) ELSE 0

\* strings.ToLower on the ASCII range
LowerChar(c) == IF c \in Upper
                THEN LowerSeq[CHOOSE i \in 1..Len(UpperSeq) : UpperSeq[i] = c]
                ELSE c

\* no case folding
ToLowerNone(s) == s

ToLower(s) == [i \in 1..Len(s) |-> LowerChar(s[i])]

\* strings.Index(s, sep) as a 1-based position, 0 when absent
Index(s, sep) == IF \E p \in 1..Len(s) : HasAt(s, p, sep)
                 THEN CHOOSE p \in 1..Len(s) :
                        /\ HasAt(s, p, sep)
                        /\ \A q \in 1..(p - 1) : ~HasAt(s, q, sep)
                 ELSE 0

\* a split that drops the empty pieces
RECURSIVE SplitNonEmpty(_, _)
SplitNonEmpty(s, sep) ==
    LET p == Index(s, sep)
    IN IF p = 0 THEN (IF s = <<>> THEN <<>> ELSE <<s>>)
       ELSE (IF p = 1 THEN <<>> ELSE <<SubSeq(s, 1, p - 1)>>)
              \o SplitNonEmpty(From(s, p + Len(sep)), sep)

\* strings.Split(s, sep) for a non-empty sep
RECURSIVE Split(_, _)
Split(s, sep) == LET p == Index(s, sep)
                 IN IF p = 0 THEN <<s>>
                    ELSE <<SubSeq(s, 1, p - 1)>> \o Split(From(s, p + Len(sep)), sep)

----------------------------------------------------------------------------
(* Result records (pkg/command: Result, Status, Severity).  Description is *)
(* kept as the arguments substituted into its format string: the command   *)
(* text, the rendered location and the proposal text.                      *)

StatusFailed == "Failed"

SeverityMedium == "Medium"

SeverityCritical == "Critical"

\* a *Result is a sequence of zero (nil) or one Result
Nil == <<>>

\* the "at file X, line Y" fragment embedded in a Description
GenerateErrorLocation(src, ln) == <<src, ln>>

\* leading command name of s (after leading whitespace) equals command,
\* as a whole word
IsCommand(s, command) ==
    LET b == 1 + Run(s, 1, WS)
        k == Run(s, b, {s[i] : i \in 1..Len(s)} \ WS)
    IN SubSeq(s, b, b + k - 1) = command

isChmodCommand(s) == IsCommand(s, kChmod)

isChownCommand(s) == IsCommand(s, kChown)

isSudoOrSuCommand(s) == IsCommand(s, kSudo) \/ IsCommand(s, kSu)

----------------------------------------------------------------------------
(* regexp `(\s+|^)(sudo|su)\s+` : FindStringSubmatch                       *)

\* the keyword matched by (sudo|su)\s+ at position i, Nil when none;
\* the alternation prefers sudo
SudoKeywordAt(s, i) ==
    IF HasAt(s, i, kSudo) /\ Run(s, i + Len(kSudo), WS) >= 1 THEN kSudo
    ELSE IF HasAt(s, i, kSu) /\ Run(s, i + Len(kSu), WS) >= 1 THEN kSu
    ELSE Nil

\* a match starts at q: a whitespace run then the keyword, or the keyword at ^
SudoMatchAt(s, q) ==
    LET w == Run(s, q, WS)
    IN IF w >= 1 /\ SudoKeywordAt(s, q + w) # Nil THEN
          LET kw == SudoKeywordAt(s, q + w)
              e  == q + w + Len(kw)
          IN <<SubSeq(s, q, e + Run(s, e, WS) - 1), SubSeq(s, q, q + w - 1), kw>>
       ELSE IF q = 1 /\ SudoKeywordAt(s, 1) # Nil THEN
          LET kw == SudoKeywordAt(s, 1)
              e  == 1 + Len(kw)
          IN <<SubSeq(s, 1, e + Run(s, e, WS) - 1), <<>>, kw>>
       ELSE Nil

\* leftmost match, Nil when there is none
SudoFind(s) ==
    IF \E q \in 1..Len(s) : SudoMatchAt(s, q) # Nil
    THEN SudoMatchAt(s, CHOOSE q \in 1..Len(s) :
                          /\ SudoMatchAt(s, q) # Nil
                          /\ \A r \in 1..(q - 1) : SudoMatchAt(s, r) = Nil)
    ELSE Nil

analyzeSudoAndSuCommand(s, src, ln) ==
    LET match == SudoFind(s)
    IN IF Len(match) > 0
       THEN <<[Name     |-> "Use of sudo/su command",
               Status   |-> StatusFailed,
               Severity |-> SeverityMedium,
               cmd      |-> s,
               loc      |-> GenerateErrorLocation(src, ln),
               proposal |-> <<>>]>>
       ELSE Nil

----------------------------------------------------------------------------
(* regexp `(\$*\w+)*:(\$*\w+)` : FindStringSubmatch                        *)

\* length of the longest run of characters of class cls ending at s[i], not
\* reaching below s[lo]
RECURSIVE RunBack(_, _, _, _)
RunBack(s, i, lo, cls) ==
    IF i >= lo /\ s[i] \in cls THEN 1 + RunBack(s, i - 1, lo, cls) ELSE 0

\* where the last repetition of the first group starts in s[i..e]: the final
\* word run with the $ run before it (e + 1 when there is no repetition)
LastRep(s, i, e) ==
    LET w == RunBack(s, e, i, Word)
    IN e + 1 - w - RunBack(s, e - w, i, {"$"})

\* a match starts at i: a run of $ and word characters that is empty or ends
\* in a word character, a colon, any number of $, one or more word characters
ChownMatchAt(s, i) ==
    LET j == i + Run(s, i, Word \cup {"$"})
        d == Run(s, j + 1, {"$"})
        w == Run(s, j + 1 + d, Word)
    IN IF /\ j <= Len(s)
          /\ s[j] = ":"
          /\ (j = i \/ s[j - 1] \in Word)
          /\ w >= 1
       THEN <<SubSeq(s, i, j + d + w),
              SubSeq(s, LastRep(s, i, j - 1), j - 1),
              SubSeq(s, j + 1, j + d + w)>>
       ELSE Nil

\* rightmost match, Nil when there is none
ChownFindLast(s) ==
    IF \E i \in 1..Len(s) : ChownMatchAt(s, i) # Nil
    THEN ChownMatchAt(s, CHOOSE i \in 1..Len(s) :
                           /\ ChownMatchAt(s, i) # Nil
                           /\ \A r \in (i + 1)..Len(s) : ChownMatchAt(s, r) = Nil)
    ELSE Nil

\* leftmost match, Nil when there is none
ChownFind(s) ==
    IF \E i \in 1..Len(s) : ChownMatchAt(s, i) # Nil
    THEN ChownMatchAt(s, CHOOSE i \in 1..Len(s) :
                           /\ ChownMatchAt(s, i) # Nil
                           /\ \A r \in 1..(i - 1) : ChownMatchAt(s, r) = Nil)
    ELSE Nil

analyzeChownCommand(s, src, ln) ==
    LET match == ChownFind(s)
    IN IF Len(match) = 0 THEN Nil
       ELSE LET group == match[Len(match)]
            IN IF ToLower(group) # kRoot /\ group # kZero
               THEN <<[Name     |-> "Owner set",
                       Status   |-> StatusFailed,
                       Severity |-> SeverityMedium,
                       cmd      |-> s,
                       loc      |-> GenerateErrorLocation(src, ln),
                       proposal |-> <<>>]>>
               ELSE Nil

----------------------------------------------------------------------------
(* regexp chmod \s+ (\d+) \s+ (. star) : FindStringSubmatch                *)

\* a match starts at i: chmod, whitespace, digits, whitespace, then the rest of
\* the line (. does not match a newline)
ChmodMatchAt(s, i) ==
    LET a  == i + Len(kChmod)
        w1 == Run(s, a, WS)
        d  == Run(s, a + w1, Digit)
        b  == a + w1 + d
        w2 == Run(s, b, WS)
        r  == Run(s, b + w2, {s[k] : k \in 1..Len(s)} \ {"\n"})
    IN IF HasAt(s, i, kChmod) /\ w1 >= 1 /\ d >= 1 /\ w2 >= 1
       THEN <<SubSeq(s, i, b + w2 + r - 1),
              SubSeq(s, a + w1, b - 1),
              SubSeq(s, b + w2, b + w2 + r - 1)>>
       ELSE Nil

\* leftmost match, Nil when there is none
ChmodFind(s) ==
    IF \E i \in 1..Len(s) : ChmodMatchAt(s, i) # Nil
    THEN ChmodMatchAt(s, CHOOSE i \in 1..Len(s) :
                           /\ ChmodMatchAt(s, i) # Nil
                           /\ \A r \in 1..(i - 1) : ChmodMatchAt(s, r) = Nil)
    ELSE Nil

SyntaxError(src, ln) ==
    <<[Name     |-> "Syntax error",
       Status   |-> StatusFailed,
       Severity |-> SeverityCritical,
       cmd      |-> <<>>,
       loc      |-> GenerateErrorLocation(src, ln),
       proposal |-> <<>>]>>

\* the rule with a length check that lets longer modes through
analyzeChmodCommandAtLeast3(s, src, ln) ==
    LET match == ChmodFind(s)
    IN IF Len(match) = 0 THEN Nil
       ELSE IF Len(match) # 3 THEN SyntaxError(src, ln)
       ELSE LET permission == match[2]
            IN IF Len(permission) < 3 THEN SyntaxError(src, ln)
               ELSE LET groupPermission == SubSeq(permission, 2, 2)
                        try7 == <<permission[1], "7", permission[3]>>
                        try6 == <<permission[1], "6", permission[3]>>
                    IN IF groupPermission # <<"7">>
                       THEN <<[Name     |-> "Permission set",
                               Status   |-> StatusFailed,
                               Severity |-> SeverityMedium,
                               cmd      |-> s,
                               loc      |-> GenerateErrorLocation(src, ln),
                               proposal |-> IF groupPermission # <<"6">>
                                            THEN <<try7, try6>>
                                            ELSE <<try7>>]>>
                       ELSE Nil

\* the rule proposing 6 whatever the group digit is
analyzeChmodCommandNo6(s, src, ln) ==
    LET match == ChmodFind(s)
    IN IF Len(match) = 0 THEN Nil
       ELSE IF Len(match) # 3 THEN SyntaxError(src, ln)
       ELSE LET permission == match[2]
            IN IF Len(permission) # 3 THEN SyntaxError(src, ln)
               ELSE LET groupPermission == SubSeq(permission, 2, 2)
                        try7 == <<permission[1], "7", permission[3]>>
                        try6 == <<permission[1], "6", permission[3]>>
                    IN IF groupPermission # <<"7">>
                       THEN <<[Name     |-> "Permission set",
                               Status   |-> StatusFailed,
                               Severity |-> SeverityMedium,
                               cmd      |-> s,
                               loc      |-> GenerateErrorLocation(src, ln),
                               proposal |-> <<try7, try6>>]>>
                       ELSE Nil

analyzeChmodCommand(s, src, ln) ==
    LET match == ChmodFind(s)
    IN IF Len(match) = 0 THEN Nil
       ELSE IF Len(match) # 3 THEN SyntaxError(src, ln)
       ELSE LET permission == match[2]
            IN IF Len(permission) # 3 THEN SyntaxError(src, ln)
               ELSE LET groupPermission == SubSeq(permission, 2, 2)
                        try7 == <<permission[1], "7", permission[3]>>
                        try6 == <<permission[1], "6", permission[3]>>
                    IN IF groupPermission # <<"7">>
                       THEN <<[Name     |-> "Permission set",
                               Status   |-> StatusFailed,
                               Severity |-> SeverityMedium,
                               cmd      |-> s,
                               loc      |-> GenerateErrorLocation(src, ln),
                               proposal |-> IF groupPermission # <<"6">>
                                            THEN <<try7, try6>>
                                            ELSE <<try7>>]>>
                       ELSE Nil

----------------------------------------------------------------------------
(* context.Context: WithValue and Value.                                   *)

Background == 0

runResultKey == "runResultKey"

\* context.WithValue(parent, key, val): a new cell; the parent is not touched
WithValue(h, parent, key, val) == Append(h, [parent |-> parent, key |-> key, val |-> val])

\* ctx.Value(key): the value of the nearest cell with that key, as a sequence
\* of zero (nil interface) or one value
RECURSIVE Value(_, _, _)
Value(h, ctx, key) ==
    IF ctx = Background THEN <<>>
    ELSE IF h[ctx].key = key THEN <<h[ctx].val>>
    ELSE Value(h, h[ctx].parent, key)

----------------------------------------------------------------------------
(* Run.Analyze and Run.PostProcess.                                        *)

\* the dispatch with the sudo/su rule as the default branch
DispatchSudoDefault(command, src, ln) ==
    IF isChmodCommand(command)
    THEN [command |-> command, rule |-> "chmod",
          result |-> analyzeChmodCommand(command, src, ln)]
    ELSE IF isChownCommand(command)
    THEN [command |-> command, rule |-> "chown",
          result |-> analyzeChownCommand(command, src, ln)]
    ELSE [command |-> command, rule |-> "sudo",
          result |-> analyzeSudoAndSuCommand(command, src, ln)]

\* one iteration of the loop of Analyze: the branch taken and what it returned
Dispatch(command, src, ln) ==
    IF isChmodCommand(command)
    THEN [command |-> command, rule |-> "chmod",
          result |-> analyzeChmodCommand(command, src, ln)]
    ELSE IF isChownCommand(command)
    THEN [command |-> command, rule |-> "chown",
          result |-> analyzeChownCommand(command, src, ln)]
    ELSE IF isSudoOrSuCommand(command)
    THEN [command |-> command, rule |-> "sudo",
          result |-> analyzeSudoAndSuCommand(command, src, ln)]
    ELSE [command |-> command, rule |-> "none", result |-> Nil]

\* the results with the new one put in front
AppendResultFront(results, result) == IF result # Nil THEN result \o results ELSE results

\* results = append(results, *result) when result != nil
AppendResult(results, result) == IF result # Nil THEN results \o result ELSE results

\* the loop of Analyze from iteration k on, with the results so far
RECURSIVE AnalyzeLoop(_, _, _, _, _, _)
AnalyzeLoop(splittedCommands, k, results, steps, src, ln) ==
    IF k > Len(splittedCommands) THEN [results |-> results, steps |-> steps]
    ELSE LET step == Dispatch(splittedCommands[k], src, ln)
         IN AnalyzeLoop(splittedCommands, k + 1,
                        AppendResult(results, step.result),
                        Append(steps, step), src, ln)

\* the results and the iterations of Analyze on one instruction
AnalyzeRun(v, src, ln) == AnalyzeLoop(Split(v, kSep), 1, <<>>, <<>>, src, ln)

\* the results added to those the context already carries
StoreResultsAdded(h, ctx, results) ==
    LET result == Value(h, ctx, runResultKey)
    IN WithValue(h, ctx, runResultKey,
                 (IF result = <<>> THEN <<>> ELSE result[1]) \o results)

\* the context cell Analyze stores its results in
StoreResults(h, ctx, results) == WithValue(h, ctx, runResultKey, results)

\* Run.PostProcess(ctx) on heap h
PostProcessOf(h, ctx) ==
    LET result == Value(h, ctx, runResultKey)
    IN IF result = <<>> THEN <<>> ELSE result[1]

----------------------------------------------------------------------------
(* The instructions the analyzer is run on.                                *)

MaxDigits == 4

MaxCmds == 3

MaxSplitLen == 5

MaxCtx == 2

RECURSIVE Cat(_)
Cat(ss) == IF ss = <<>> THEN <<>> ELSE Head(ss) \o Cat(Tail(ss))

\* all sequences over S of length at most n
SeqsUpTo(S, n) == UNION {[1..k -> S] : k \in 0..n}

Sources == {"Dockerfile"}

Lines == {1, 2}

\* the line of the runs on a fresh context
FreshLines == {1}

Gaps == {<<>>, <<" ">>}

ModeDigits == {"5", "6", "7"}

Modes == SeqsUpTo(ModeDigits, MaxDigits)

\* chmod with a mode, an option or nothing, then a path, nothing, or a mode
\* after an option
ChmodCommands ==
    {Cat(<<kChmod, g1, a1, g2, a2>>) :
        g1 \in Gaps,
        a1 \in Modes \cup {<<"+", "x">>, <<"-", "R">>},
        g2 \in Gaps,
        a2 \in {<<>>, <<"/", "a">>, <<"7", "5", "5", " ", "/", "a">>}}

Owners == {<<>>, <<"a">>, <<"$", "U">>}

Groups == {<<>>, <<"$">>, kRoot, <<"R", "O", "O", "T">>, <<"R", "o", "o", "t">>,
           kZero, <<"0", "0">>, <<"1", "0", "0", "0">>, <<"n", "o", "d", "e">>,
           <<"$", "G">>, <<"$", "r", "o", "o", "t">>}

\* chown with an owner:group pair, an owner or an option, then a path, nothing
\* or a second pair
ChownCommands ==
    {Cat(<<lead, kChown, g1, a1, g2, a2>>) :
        lead \in Gaps,
        g1 \in Gaps,
        a1 \in {o \o <<":">> \o g : o \in Owners, g \in Groups}
                 \cup {<<"a">>, <<"-", "R">>},
        g2 \in Gaps,
        a2 \in {<<>>, <<"/", "a">>, <<"b", ":">> \o kRoot, <<"b", ":">> \o kZero,
                <<"b", ":", "g">>}}

\* sudo, su and words that merely contain them
SudoCommands ==
    {Cat(<<lead, kw, g1, a1, g2>>) :
        lead \in Gaps \cup {<<"\t">>, <<"x", " ">>},
        kw \in {kSudo, kSu, kSudo \o <<"e", "r">>, <<"i", "s">> \o kSu, <<"l", "s">>},
        g1 \in Gaps \cup {<<"\t">>, <<"\n">>},
        a1 \in {<<>>, <<"x">>, kSu, kSudo},
        g2 \in Gaps}

\* one keyword after another
MixedCommands ==
    {Cat(<<lead, k1, <<" ">>, k2, <<" ">>, a>>) :
        lead \in Gaps,
        k1 \in {kChmod, kChown, kSudo, kSu, <<"l", "s">>, kChmod \o <<"x">>},
        k2 \in {kChmod, kChown, kSudo, kSu},
        a \in {<<"7", "5", "5", " ", "/", "a">>, <<"a", ":", "b">>, <<"x">>}}

\* one sub-command of each outcome, to chain with &&
ChainCommands ==
    {kChmod \o <<" ", "7", "5", "5", " ", "a">>,
     kChmod \o <<" ", "7", "7", "5", " ", "a">>,
     kChmod \o <<" ", "7", "5", " ", "a">>,
     kChown \o <<" ", "a", ":", "b">>,
     kChown \o <<" ", "a", ":", "0">>,
     kSudo \o <<" ", "x">>,
     kSu,
     <<"l", "s">>}

RECURSIVE Join(_, _)
Join(ss, sep) == IF Len(ss) = 0 THEN <<>>
                 ELSE IF Len(ss) = 1 THEN ss[1]
                 ELSE ss[1] \o sep \o Join(Tail(ss), sep)

Chains == {Join(cs, kSep) : cs \in UNION {[1..k -> ChainCommands] : k \in 2..MaxCmds}}

\* arbitrary short strings around the separator
SplitAlphabet == {"&", "a", " "}

SplitStrings == SeqsUpTo(SplitAlphabet, MaxSplitLen)

Inputs == ChmodCommands \cup ChownCommands \cup SudoCommands \cup MixedCommands
            \cup Chains \cup SplitStrings

\* the instructions of the runs that chain contexts
CtxInputs == {kSudo \o <<" ", "x">>,
              kChown \o <<" ", "a", ":", "b">> \o kSep \o kSu \o <<" ", "x">>,
              <<"l", "s">>}

----------------------------------------------------------------------------
(* The caller: it analyzes an instruction on a context it holds, reads the *)
(* results back from a context, and drops the contexts of an instruction.  *)

\* another analyzer's value in the context the caller starts from
InitHeap == <<[parent |-> Background, key |-> "otherResultKey",
               val |-> <<[Name |-> "other", Status |-> StatusFailed,
                          Severity |-> SeverityMedium, cmd |-> <<>>,
                          loc |-> <<>>, proposal |-> <<>>]>>]>>

CtxIds == 0..Len(heap)

Init ==
    /\ heap = InitHeap
    /\ made = <<<<>>>>
    /\ value = <<>>
    /\ source = "Dockerfile"
    /\ line = 1
    /\ ctxArg = Background
    /\ ret = Background
    /\ trace = <<>>
    /\ out = <<>>
    /\ outCtx = Background

\* r.Analyze(ctx, node, source, line) for node.Value in vals
Analyze(vals, lns) ==
    \E v \in vals, src \in Sources, ln \in lns, ctx \in CtxIds :
        LET run == AnalyzeRun(v, src, ln)
        IN /\ heap' = StoreResults(heap, ctx, run.results)
           /\ made' = Append(made, <<v, src, ln>>)
           /\ value' = v
           /\ source' = src
           /\ line' = ln
           /\ ctxArg' = ctx
           /\ ret' = Len(heap) + 1
           /\ trace' = run.steps
           /\ UNCHANGED <<out, outCtx>>

\* Analyze on the contexts the caller starts an instruction with
AnalyzeFresh == heap = InitHeap /\ Analyze(Inputs, FreshLines)

\* Analyze on any context built so far
AnalyzeAny == Len(heap) < Len(InitHeap) + MaxCtx /\ Analyze(CtxInputs, Lines)

\* r.PostProcess(ctx)
PostProcess ==
    \E ctx \in CtxIds :
        /\ out' = PostProcessOf(heap, ctx)
        /\ outCtx' = ctx
        /\ UNCHANGED <<heap, made, value, source, line, ctxArg, ret, trace>>

\* the caller is done with the instruction and drops its contexts
Release ==
    /\ heap # InitHeap
    /\ heap' = InitHeap
    /\ made' = <<<<>>>>
    /\ value' = <<>>
    /\ source' = "Dockerfile"
    /\ line' = 1
    /\ ctxArg' = Background
    /\ ret' = Background
    /\ trace' = <<>>
    /\ out' = <<>>
    /\ outCtx' = Background

Next == AnalyzeFresh \/ PostProcess \/ Release

Spec == Init /\ [][Next]_vars

NextCtx == AnalyzeAny \/ PostProcess

SpecCtx == Init /\ [][NextCtx]_vars

----------------------------------------------------------------------------
(* Properties.  They are stated on the record of the latest Analyze call:  *)
(* trace[k] is its k-th loop iteration, Results what it stored in ret.     *)

Results == IF ret = Background THEN <<>> ELSE heap[ret].val

Steps == 1..Len(trace)

\* res is exactly one finding with this name and severity, status Fail
OneFinding(res, name, severity) ==
    /\ Len(res) = 1
    /\ res[1].Name = name
    /\ res[1].Status = "Failed"
    /\ res[1].Severity = severity

\* strings.Count(s, "&&"): non-overlapping occurrences, left to right from s[i]
RECURSIVE CountSep(_, _)
CountSep(s, i) ==
    IF i + 1 > Len(s) THEN 0
    ELSE IF s[i] = "&" /\ s[i + 1] = "&" THEN 1 + CountSep(s, i + 2)
    ELSE CountSep(s, i + 1)

Commands == [k \in Steps |-> trace[k].command]

\* C9: splitting on "&&" gives k+1 sub-commands for k non-overlapping
\* occurrences, none trimmed or dropped: joining them with "&&" gives the value
\* back, and with k = 0 the one sub-command is the whole value.
C9_SplitOnSeparator ==
    ret # Background =>
        /\ Len(trace) = CountSep(value, 1) + 1
        /\ Join(Commands, kSep) = value
        /\ (CountSep(value, 1) = 0 => Commands = <<value>>)

\* an instruction with two separators and an empty sub-command was split
C9_Witness ==
    /\ ret # Background
    /\ CountSep(value, 1) = 2
    /\ Len(trace) = 3
    /\ \E k \in Steps : trace[k].command = <<>>
    /\ \E k \in Steps : trace[k].command # <<>>

\* C1: each sub-command contributes zero or one finding, so there are never
\* more findings than sub-commands, and the findings are in sub-command order.
C1_OneFindingPerSubCommandInOrder ==
    /\ Len(Results) <= Len(trace)
    /\ \A k \in Steps : Len(trace[k].result) <= 1
    /\ Results = Cat([k \in Steps |-> trace[k].result])

\* three sub-commands gave two different findings around a compliant one
C1_Witness ==
    /\ Len(trace) = 3
    /\ Len(Results) = 2
    /\ Results[1].Name # Results[2].Name
    /\ trace[2].result = Nil
    /\ trace[1].result = <<Results[1]>>
    /\ trace[3].result = <<Results[2]>>

----------------------------------------------------------------------------
(* The permission rule.                                                    *)

\* c reads: optional whitespace, chmod, whitespace, the digits c[p..q],
\* whitespace, anything
ModeAt(c, p, q) ==
    /\ 1 < p /\ p <= q /\ q < Len(c)
    /\ \A j \in p..q : c[j] \in Digit
    /\ c[q + 1] \in WS
    /\ \E b \in 1..p :
         /\ \A j \in 1..(b - 1) : c[j] \in WS
         /\ HasAt(c, b, kChmod)
         /\ b + Len(kChmod) < p
         /\ \A j \in (b + Len(kChmod))..(p - 1) : c[j] \in WS

Spans(c) == {pq \in (1..Len(c)) \X (1..Len(c)) : ModeAt(c, pq[1], pq[2])}

\* no chmod in c is followed by whitespace, digits and whitespace
NoModeIn(c) ==
    ~ \E i \in 1..Len(c), p \in 1..Len(c), q \in 1..Len(c) :
         /\ HasAt(c, i, kChmod)
         /\ i + Len(kChmod) < p /\ p <= q /\ q < Len(c)
         /\ \A j \in (i + Len(kChmod))..(p - 1) : c[j] \in WS
         /\ \A j \in p..q : c[j] \in Digit
         /\ c[q + 1] \in WS

\* C2: a permission-change sub-command from which no numeric mode can be
\* extracted gets exactly one Critical, Fail finding named "Syntax error".
C2_NoModeIsSyntaxError ==
    \A k \in Steps :
        (trace[k].rule = "chmod" /\ NoModeIn(trace[k].command))
            => OneFinding(trace[k].result, "Syntax error", "Critical")

\* C3: chmod <digits> <rest> with other than three digits gets exactly one
\* Critical, Fail finding named "Syntax error" and no "Permission set" finding.
C3_WrongDigitCountIsSyntaxError ==
    \A k \in Steps : \A pq \in Spans(trace[k].command) :
        pq[2] - pq[1] + 1 # 3
            => /\ trace[k].rule = "chmod"
               /\ OneFinding(trace[k].result, "Syntax error", "Critical")

\* a chmod with a four-digit mode and one with a two-digit mode were reported
C3_Witness ==
    /\ \E k \in Steps : \E pq \in Spans(trace[k].command) :
         /\ pq[2] - pq[1] + 1 \in {2, 4}
         /\ OneFinding(trace[k].result, "Syntax error", "Critical")
    /\ Results # <<>>

\* C4: chmod with a three-digit mode ogx gets no finding when g is 7, and
\* otherwise exactly one Medium, Fail finding "Permission set" that proposes
\* o7x, and o6x as well exactly when g is not 6.
C4_GroupDigitDecides ==
    \A k \in Steps : \A pq \in Spans(trace[k].command) :
        pq[2] - pq[1] + 1 = 3 =>
            LET c == trace[k].command
                o == c[pq[1]]
                g == c[pq[1] + 1]
                x == c[pq[1] + 2]
                res == trace[k].result
            IN /\ trace[k].rule = "chmod"
               /\ g = "7" => res = Nil
               /\ g # "7" =>
                    /\ OneFinding(res, "Permission set", "Medium")
                    /\ res[1].cmd = c
                    /\ res[1].proposal[1] = <<o, "7", x>>
                    /\ g # "6" => res[1].proposal = <<<<o, "7", x>>, <<o, "6", x>>>>
                    /\ g = "6" => res[1].proposal = <<<<o, "7", x>>>>

\* a chmod with group digit 6 was told to use 7 only
C4_Witness ==
    \E k \in Steps : \E pq \in Spans(trace[k].command) :
        /\ pq[2] - pq[1] + 1 = 3
        /\ trace[k].command[pq[1] + 1] = "6"
        /\ trace[k].command[pq[1]] # trace[k].command[pq[1] + 2]
        /\ OneFinding(trace[k].result, "Permission set", "Medium")
        /\ Len(trace[k].result[1].proposal) = 1

----------------------------------------------------------------------------
(* The ownership rule.                                                     *)

\* the colon c[j] heads a group: any number of $, then a word character
PairAt(c, j) ==
    /\ c[j] = ":"
    /\ \E e \in (j + 1)..Len(c) :
         /\ c[e] \in Word
         /\ \A i \in (j + 1)..(e - 1) : c[i] = "$"

Pairs(c) == {j \in 1..Len(c) : PairAt(c, j)}

FirstPair(c) == CHOOSE j \in Pairs(c) : \A i \in Pairs(c) : j <= i

LastPair(c) == CHOOSE j \in Pairs(c) : \A i \in Pairs(c) : i <= j

\* the group after the colon c[j]: its $ and the word characters after them
GroupAt(c, j) ==
    LET e == CHOOSE e \in j..Len(c) :
               /\ \A i \in (j + 1)..e : c[i] \in Word \cup {"$"}
               /\ \A i \in (j + 2)..e : c[i] = "$" => c[i - 1] = "$"
               /\ (e = Len(c) \/ c[e + 1] \notin Word)
               /\ (c[e] \in Word \/ e = j)
    IN SubSeq(c, j + 1, e)

\* g is the word root in any letter case, or the string 0
RootGroup(g) ==
    \/ g = <<"0">>
    \/ /\ Len(g) = 4
       /\ g[1] \in {"r", "R"}
       /\ g[2] \in {"o", "O"}
       /\ g[3] \in {"o", "O"}
       /\ g[4] \in {"t", "T"}

C6_GroupMustBeRoot ==
    \A k \in Steps :
        trace[k].rule = "chown" =>
            LET c == trace[k].command
                res == trace[k].result
            IN IF Pairs(c) = {} THEN res = Nil
               ELSE IF RootGroup(GroupAt(c, FirstPair(c))) THEN res = Nil
               ELSE OneFinding(res, "Owner set", "Medium") /\ res[1].cmd = c

\* a chown to group ROOT was found compliant
C6_Witness ==
    \E k \in Steps :
        LET c == trace[k].command
        IN /\ trace[k].rule = "chown"
           /\ Pairs(c) # {}
           /\ GroupAt(c, FirstPair(c)) = <<"R", "O", "O", "T">>
           /\ trace[k].result = Nil

----------------------------------------------------------------------------
(* The privilege-escalation rule and the dispatch.                         *)

\* C7: every sub-command handed to the privilege-escalation rule gets exactly
\* one Medium, Fail finding "Use of sudo/su command".
C7_SudoAlwaysReported ==
    \A k \in Steps :
        trace[k].rule = "sudo"
            => OneFinding(trace[k].result, "Use of sudo/su command", "Medium")

----------------------------------------------------------------------------
(* Contexts.                                                               *)

\* the cells Analyze built
RunCells == {n \in 1..Len(heap) : heap[n].key = runResultKey}

\* C8: the findings read back from the context Analyze returned depend on
\* the instruction and its location only: the same arguments give the same
\* findings on any context, the findings of the context passed in are
\* replaced and not added to, and a context read before still yields what
\* it yielded.
C8_FindingsDependOnArgumentsOnly ==
    /\ \A n \in RunCells : \A m \in RunCells :
         made[n] = made[m] => PostProcessOf(heap, n) = PostProcessOf(heap, m)
    /\ \A n \in RunCells :
         PostProcessOf(heap, n) = AnalyzeRun(made[n][1], made[n][2], made[n][3]).results
    /\ out = PostProcessOf(heap, outCtx)

\* Analyze ran a second time with the same arguments, now on the context the
\* first call returned, whose findings had been read before
C8_Witness ==
    /\ ret \in RunCells
    /\ ctxArg \in RunCells
    /\ heap[ctxArg].parent \notin RunCells
    /\ made[ret] = made[ctxArg]
    /\ outCtx = ctxArg
    /\ Len(out) = 2
    /\ PostProcessOf(heap, ret) = out

====
